---- MODULE Spec2Model ----
(***************************************************************************)
(* A model of pushMScontacts.py: the retrying request handler safe_request, *)
(* the contact-id walk get_all_contact_ids, the contact filter              *)
(* get_microsoft_only_contacts, the organization scan                       *)
(* get_autotask_syncing_orgs and the creation loop of main with             *)
(* get_existing_autotask_contacts and create_contact_in_autotask.           *)
(*                                                                         *)
(* Every component has its own specification (SpecReq, SpecWalk, ...) over  *)
(* the one variable tuple vars; a specification leaves the variables of the *)
(* other components at their initial values.                                *)
(***************************************************************************)
EXTENDS Integers, Sequences, FiniteSets, TLC

(***************************************************************************)
(* Values shared by all components                                          *)
(***************************************************************************)

\* Python's None: what safe_request returns after the last retry.
None == 0

\* A local variable that no assignment has bound yet ('resp' not in locals()).
Unbound == 0 - 1

\* The outcome of one requests.request call that raised instead of answering.
Exc == 0 - 2

\* HTTP statuses the two services answer with: two below 400 (200 is the only
\* one the callers accept), a client error and the server error of line 26.
StatusCodes == {200, 204, 404, 500}

\* What one call of requests.request can do: answer with a status, or raise.
Outcomes == StatusCodes \cup {Exc}

\* The default of safe_request's max_retries parameter.
MAX_RETRIES == 5

RECURSIVE Pow2(_)
\* 2 ** n
Pow2(n) == IF n = 0 THEN 1 ELSE 2 * Pow2(n - 1)

VARIABLES
    \* ---- safe_request (one call) ----
    sr_pc,          \* "idle" | "loop" | "backoff" | "returned" | "raised"
    max_retries,    \* the parameter max_retries
    attempt,        \* the loop variable of line 17
    resp,           \* the local resp: Unbound, or the status of the last answer
    sr_result,      \* the value returned: None or a status
    sr_log,         \* history: the outcome of every HTTP attempt of this call
    sr_sleeps,      \* history: the argument of every time.sleep of this call
    sr_caller,      \* who called: "test" (the call stands alone) or "walk"
    \* ---- get_all_contact_ids ----
    walk_pc,        \* "idle" | "loop" | "call" | "done"
    pages,          \* the server's pages of the contacts collection
    url,            \* the local url: a page number, or None
    contact_ids,    \* the local contact_ids
    requested,      \* history: the pages the walk asked safe_request for
    \* ---- get_microsoft_only_contacts ----
    filter_pc,      \* "idle" | "start" | "collect" | "done"
    licensed,       \* the parameter licensed
    fut,            \* the futures of line 96: "queued" | "slept" | "done"
    fut_resp,       \* what fetch_contact_details returned, per future
    handled,        \* history: the futures the loop of line 97 has handled, in order
    ms_only_contacts, \* the local ms_only_contacts
    \* ---- get_autotask_syncing_orgs ----
    org_pc,         \* "idle" | "enum" | "check" | "done"
    org_pages,      \* the server's pages of the organization list
    page,           \* the local page
    all_orgs,       \* the local all_orgs
    org_i,          \* the position of the loop of line 260 in all_orgs
    org_checked,    \* history: the answer to every detail fetch of line 264
    autotask_orgs,  \* the local autotask_orgs
    \* ---- the creation loop of main, lines 344-358 ----
    create_pc,      \* "idle" | "prompt" | "cancelled" | "next" | "read" | "create" | "end"
    confirm_input,  \* history: what input() of line 341 returned
    run,            \* which run of the loop over contacts_to_create this is
    contacts_to_create, \* the list of (company_id, contact_payload)
    cand_i,         \* the position of the loop of line 349
    existing_contacts_cache, \* the dict of line 344: company_id -> set of emails
    created_count,  \* the local created_count
    skipped,        \* the local skipped
    \* ---- get_existing_autotask_contacts (one call) ----
    at_page_no,     \* the number of the page the local url stands for
    existing_emails, \* the local existing_emails
    \* ---- history of the creation loop ----
    read_log,       \* the company of every call of get_existing_autotask_contacts
    read_items,     \* company -> the emailAddress values of the items read
    read_failed,    \* the companies whose read met a failed page
    calls,          \* every call of create_contact_in_autotask, in order
    \* ---- the candidate loop of main, lines 305-338 ----
    main_pc,        \* "idle" | "orgs" | "contacts" | "done"
    syncing_orgs,   \* the local syncing_orgs
    exclude_ids,    \* the local exclude_ids, as the set of its elements
    main_i,         \* the position of the loop of line 313
    autotask_remote_id, \* the local autotask_remote_id
    main_n,         \* history: how many contacts the loop of line 329 has met
    filtered,       \* history: the positions get_microsoft_only_contacts was called for
    cand_src,       \* history: per candidate, the position and the contact it came from
    \* ---- the worker pool of get_microsoft_only_contacts on a clock ----
    pool_size,      \* max_workers of the pool
    now,            \* the time, in ticks
    task,           \* per submitted future: "queued" | "sleeping" | "done"
    wake,           \* per future: when its time.sleep(DELAY) is over
    req_times       \* history: the time each detail request was issued at

reqVars == <<sr_pc, max_retries, attempt, resp, sr_result, sr_log, sr_sleeps, sr_caller>>
walkVars == <<walk_pc, pages, url, contact_ids, requested>>
filterVars == <<filter_pc, licensed, fut, fut_resp, handled, ms_only_contacts>>

orgVars == <<org_pc, org_pages, page, all_orgs, org_i, org_checked, autotask_orgs>>

createVars == <<create_pc, confirm_input, run, contacts_to_create, cand_i, existing_contacts_cache,
                created_count, skipped, at_page_no, existing_emails,
                read_log, read_items, read_failed, calls>>

mainVars == <<main_pc, syncing_orgs, exclude_ids, main_i, autotask_remote_id,
              main_n, filtered, cand_src>>

rateVars == <<pool_size, now, task, wake, req_times>>

vars == <<reqVars, walkVars, filterVars, orgVars, createVars, mainVars, rateVars>>

\* What an action of one component leaves alone: the other components.
reqFrame == <<walkVars, filterVars, orgVars, createVars, mainVars, rateVars>>
walkFrame == <<filterVars, orgVars, createVars, mainVars, rateVars>>
filterFrame == <<reqVars, walkVars, orgVars, createVars, mainVars, rateVars>>
orgFrame == <<reqVars, walkVars, filterVars, createVars, mainVars, rateVars>>
createFrame == <<reqVars, walkVars, filterVars, orgVars, mainVars, rateVars>>
rateFrame == <<reqVars, walkVars, filterVars, orgVars, createVars, mainVars>>

\* What the candidate loop of main leaves alone: the other components and,
\* of the creation loop, all but contacts_to_create.
mainFrame == <<reqVars, walkVars, filterVars, orgVars, rateVars,
               create_pc, confirm_input, run, cand_i, existing_contacts_cache,
               created_count, skipped, at_page_no, existing_emails,
               read_log, read_items, read_failed, calls>>

(***************************************************************************)
(* safe_request, lines 16-43                                                *)
(***************************************************************************)

\* (variant: only 200 passes the test)
IsSuccessOnly200(status) == status = 200

\* line 22: the success test on a response's status
IsSuccess(status) == status < 400

\* (variant: 2 * attempt)
WaitLinear(a) == 2 * a

\* line 37: the backoff wait of the attempt numbered a (0-indexed)
Wait(a) == Pow2(a)

\* line 38: the retry message prints resp.status_code only when 'resp' is in
\* locals(), so that an unbound resp (an exception on the first attempt) does
\* not raise there
RetryMessageRaises(r) == FALSE

\* Entering safe_request(method, url, ..., max_retries = m) for caller c.
SrEnter(c, m) ==
    /\ sr_pc' = "loop"
    /\ sr_caller' = c
    /\ max_retries' = m
    /\ attempt' = 0
    /\ resp' = Unbound
    /\ sr_result' = None
    /\ sr_log' = <<>>
    /\ sr_sleeps' = <<>>

\* lines 17-34: one HTTP attempt. A status below 400 is returned at once; any
\* other status, or an exception, goes on to the backoff.
SrAttempt ==
    /\ sr_pc = "loop"
    /\ attempt < max_retries
    /\ \E o \in Outcomes :
         /\ sr_log' = Append(sr_log, o)
         /\ IF o = Exc
              THEN /\ sr_pc' = "backoff"
                   /\ UNCHANGED <<resp, sr_result>>
              ELSE /\ resp' = o
                   /\ IF IsSuccess(o)
                        THEN sr_pc' = "returned" /\ sr_result' = o
                        ELSE sr_pc' = "backoff" /\ UNCHANGED sr_result
    /\ UNCHANGED <<max_retries, attempt, sr_sleeps, sr_caller>>
    /\ UNCHANGED reqFrame

\* lines 36-39: print the retry message, sleep 2 ** attempt, next iteration.
SrBackoff ==
    /\ sr_pc = "backoff"
    /\ IF RetryMessageRaises(resp)
         THEN /\ sr_pc' = "raised"
              /\ UNCHANGED <<attempt, sr_sleeps>>
         ELSE /\ sr_sleeps' = Append(sr_sleeps, Wait(attempt))
              /\ attempt' = attempt + 1
              /\ sr_pc' = "loop"
    /\ UNCHANGED <<max_retries, resp, sr_result, sr_log, sr_caller>>
    /\ UNCHANGED reqFrame

\* lines 41-43: the loop is exhausted, return None.
SrGiveUp ==
    /\ sr_pc = "loop"
    /\ attempt >= max_retries
    /\ sr_pc' = "returned"
    /\ sr_result' = None
    /\ UNCHANGED <<max_retries, attempt, resp, sr_log, sr_sleeps, sr_caller>>
    /\ UNCHANGED reqFrame

(***************************************************************************)
(* get_all_contact_ids, lines 57-71                                         *)
(***************************************************************************)

\* The "data" list of one page: empty, one item, two items.
PageData == {<<>>, <<"c1">>, <<"c2", "c1">>}

\* (variant: only None is a failure)
PageFailedOnlyNone(r) == r = None

\* line 64: the page fetch failed: safe_request gave None or a status other
\* than 200
PageFailed(r) == r = None \/ r # 200

\* line 68: contact_ids.extend(the ids of the page's items)
Extend(ids, data) == ids \o data

\* (variant: continue instead of break)
AfterFailedPageContinue == "loop"

\* line 66: break leaves the while loop of line 62, and line 71 returns
AfterFailedPage == "done"

\* line 62, url set: safe_request("GET", url) of line 63 is called.
WalkCall ==
    /\ walk_pc = "loop"
    /\ url # None
    /\ SrEnter("walk", MAX_RETRIES)
    /\ requested' = requested \cup {url}
    /\ walk_pc' = "call"
    /\ UNCHANGED <<pages, url, contact_ids>>
    /\ UNCHANGED walkFrame

\* lines 64-69: safe_request has returned. A failed page ends the loop; a page
\* of status 200 is appended and its links.next becomes url.
WalkResume ==
    /\ walk_pc = "call"
    /\ sr_pc = "returned"
    /\ sr_caller = "walk"
    /\ IF PageFailed(sr_result)
         THEN /\ walk_pc' = AfterFailedPage
              /\ UNCHANGED <<url, contact_ids>>
         ELSE /\ contact_ids' = Extend(contact_ids, pages[url].data)
              /\ url' = pages[url].next
              /\ walk_pc' = "loop"
    /\ UNCHANGED <<pages, requested>>
    /\ UNCHANGED <<reqVars, walkFrame>>

\* line 62, url None: the loop ends and line 71 returns contact_ids.
WalkReturn ==
    /\ walk_pc = "loop"
    /\ url = None
    /\ walk_pc' = "done"
    /\ UNCHANGED <<pages, url, contact_ids, requested>>
    /\ UNCHANGED <<reqVars, walkFrame>>

(***************************************************************************)
(* What safe_request gives its caller, lines 23 and 43                      *)
(***************************************************************************)

\* The values a call of safe_request can return: a response whose status
\* passed the test of line 22, or None.
SafeRequestReturns == {None} \cup {st \in StatusCodes : IsSuccess(st)}

(***************************************************************************)
(* The included list of a contact or organization detail                    *)
(***************************************************************************)

\* An adapters_resources item: attributes adapter-type-name, sync, orphaned,
\* remote-id.
Adapter(name, sync, orphaned, rid) ==
    [type |-> "adapters_resources", adapter_type_name |-> name, sync |-> sync,
     orphaned |-> orphaned, remote_id |-> rid, resource_type_name |-> ""]

\* An item of another type (tags, related_items) with a resource-type-name.
Related(type, rtn) ==
    [type |-> type, adapter_type_name |-> "", sync |-> FALSE,
     orphaned |-> FALSE, remote_id |-> "", resource_type_name |-> rtn]

MsOn == Adapter("Microsoft", TRUE, FALSE, "m1")
MsOff == Adapter("Microsoft", FALSE, FALSE, "m1")
AtOn == Adapter("Autotask", TRUE, FALSE, "500")
AtOff == Adapter("Autotask", FALSE, FALSE, "500")
LicTag == Related("tags", "Microsoft Licenses")
OtherTag == Related("tags", "Other")
LicRelated == Related("related_items", "Microsoft Licenses")

\* The included lists a contact detail answers with: every combination of
\* the three flags the filter reads, and the near misses of each flag.
ContactIncluded ==
    { <<>>, <<MsOn>>, <<AtOn>>,
      <<MsOn, LicTag>>, <<LicTag, MsOn>>, <<MsOn, AtOn>>,
      <<MsOn, AtOn, LicTag>>, <<MsOn, AtOff, LicTag>>, <<MsOn, AtOff>>,
      <<MsOff, LicTag>>, <<MsOn, OtherTag>>, <<MsOn, LicRelated>> }

(***************************************************************************)
(* contact_syncs_with, lines 49-54, and contact_has_ms_license, lines 81-87 *)
(***************************************************************************)

RECURSIVE contact_syncs_with(_, _)
\* The loop of line 50 over the included list: True at the first item whose
\* adapter-type-name is the target and whose sync is truthy, else False.
contact_syncs_with(included, target_adapter) ==
    IF included = <<>> THEN FALSE
    ELSE IF Head(included).adapter_type_name = target_adapter /\ Head(included).sync
           THEN TRUE
           ELSE contact_syncs_with(Tail(included), target_adapter)

RECURSIVE contact_has_ms_license(_)
\* The loop of line 82: True at the first item of type "tags" whose
\* resource-type-name is "Microsoft Licenses", else False.
contact_has_ms_license(included) ==
    IF included = <<>> THEN FALSE
    ELSE IF Head(included).type = "tags"
              /\ Head(included).resource_type_name = "Microsoft Licenses"
           THEN TRUE
           ELSE contact_has_ms_license(Tail(included))

(***************************************************************************)
(* get_microsoft_only_contacts, lines 90-112, with fetch_contact_details,   *)
(* lines 74-78                                                              *)
(***************************************************************************)

\* max_workers of the ThreadPoolExecutor of line 95.
MAX_WORKERS == 10

\* What fetch_contact_details gets from safe_request: None, a response of a
\* status below 400 other than 200 (with no body, or with a body that reads
\* like a Microsoft-only contact), or a 200 with the contact's detail.
DetailResponses ==
    {[status |-> None, included |-> <<>>]}
    \cup {[status |-> st, included |-> inc] :
             st \in SafeRequestReturns \ {None, 200}, inc \in {<<>>, <<MsOn>>}}
    \cup {[status |-> 200, included |-> inc] : inc \in ContactIncluded}

\* (variant: only the None of safe_request counts as a failed fetch)
DetailFailedOnlyNone(r) == r.status = None

\* line 99: the detail fetch of the future failed
DetailFailed(r) == r.status = None \/ r.status # 200

\* (variant: a completed future is yielded again and again)
NotYetHandledEver(i) == TRUE

\* line 97: as_completed yields every completed future once
NotYetHandled(i) == \A k \in 1..Len(handled) : handled[k] # i

\* (variant: the license state is not compared)
KeepIgnoringLicense(ms, at, lic, want) == ms /\ ~at

\* line 109: the filter on the three flags
Keep(ms, at, lic, want) == ms /\ ~at /\ ((want /\ lic) \/ (~want /\ ~lic))

\* The futures a worker of the pool is running.
Running == {i \in DOMAIN fut : fut[i] = "slept"}

\* The futures no worker has taken yet.
Queued == {i \in DOMAIN fut : fut[i] = "queued"}

\* lines 91-96: the ids are walked (get_all_contact_ids gave contact_ids) and
\* one future per id is submitted to the pool.
FilterSubmit ==
    /\ filter_pc = "start"
    /\ fut' = [i \in 1..Len(contact_ids) |-> "queued"]
    /\ fut_resp' = [i \in 1..Len(contact_ids) |-> [status |-> None, included |-> <<>>]]
    /\ filter_pc' = "collect"
    /\ UNCHANGED <<licensed, handled, ms_only_contacts>>
    /\ UNCHANGED filterFrame

\* line 75: a free worker takes the oldest queued future and sleeps DELAY.
FetchSleep ==
    /\ filter_pc = "collect"
    /\ Queued # {}
    /\ Cardinality(Running) < MAX_WORKERS
    /\ LET i == CHOOSE q \in Queued : \A r \in Queued : q <= r
       IN fut' = [fut EXCEPT ![i] = "slept"]
    /\ UNCHANGED <<filter_pc, licensed, fut_resp, handled, ms_only_contacts>>
    /\ UNCHANGED filterFrame

\* lines 76-78: after the sleep the worker sends the request through
\* safe_request and the future completes with (contact_id, resp).
FetchRequest ==
    /\ filter_pc = "collect"
    /\ \E i \in Running, r \in DetailResponses :
         /\ fut' = [fut EXCEPT ![i] = "done"]
         /\ fut_resp' = [fut_resp EXCEPT ![i] = r]
    /\ UNCHANGED <<filter_pc, licensed, handled, ms_only_contacts>>
    /\ UNCHANGED filterFrame

\* lines 97-110: as_completed yields a completed future; a failed detail is
\* skipped, any other is classified and appended when the filter keeps it.
HandleResult ==
    /\ filter_pc = "collect"
    /\ \E i \in DOMAIN fut :
         /\ fut[i] = "done"
         /\ NotYetHandled(i)
         /\ handled' = Append(handled, i)
         /\ LET r == fut_resp[i]
                syncs_with_microsoft == contact_syncs_with(r.included, "Microsoft")
                syncs_with_autotask == contact_syncs_with(r.included, "Autotask")
                has_license == contact_has_ms_license(r.included)
            IN IF DetailFailed(r)
                 THEN UNCHANGED ms_only_contacts
                 ELSE IF Keep(syncs_with_microsoft, syncs_with_autotask,
                              has_license, licensed)
                        THEN ms_only_contacts' =
                               Append(ms_only_contacts,
                                      [contact_id |-> contact_ids[i],
                                       included |-> r.included])
                        ELSE UNCHANGED ms_only_contacts
    /\ UNCHANGED <<filter_pc, licensed, fut, fut_resp>>
    /\ UNCHANGED filterFrame

\* line 112: every future has been handled, ms_only_contacts is returned.
FilterReturn ==
    /\ filter_pc = "collect"
    /\ Len(handled) = Len(contact_ids)
    /\ filter_pc' = "done"
    /\ UNCHANGED <<licensed, fut, fut_resp, handled, ms_only_contacts>>
    /\ UNCHANGED filterFrame

(***************************************************************************)
(* get_autotask_syncing_orgs, lines 236-280                                 *)
(***************************************************************************)

AtOrphan == Adapter("Autotask", TRUE, TRUE, "400")
AtIdle == Adapter("Autotask", FALSE, FALSE, "300")
AtOn2 == Adapter("Autotask", TRUE, FALSE, "600")
AtNoId == Adapter("Autotask", TRUE, FALSE, "")

\* The included lists an organization detail answers with: no Autotask
\* relationship, an active, an orphaned, a non-syncing one, several of them
\* in both orders, and an active one with an empty remote-id.
OrgIncluded ==
    { <<>>, <<MsOn>>, <<AtOn>>, <<AtOrphan>>, <<AtIdle>>,
      <<AtOrphan, AtOn>>, <<AtOn, AtOrphan>>, <<AtIdle, AtOn>>,
      <<MsOn, AtOn>>, <<AtOn, AtOn2>>, <<AtOrphan, AtIdle>>, <<AtNoId>> }

\* What the detail fetch of line 264 gets from safe_request.
OrgDetailResponses ==
    {[status |-> st, included |-> <<>>] : st \in SafeRequestReturns \ {200}}
    \cup {[status |-> 200, included |-> inc] : inc \in OrgIncluded}

\* lines 272-276: the item is an Autotask relationship that syncs and is not
\* orphaned
IsActiveAutotask(item) ==
    item.adapter_type_name = "Autotask" /\ item.sync /\ ~item.orphaned

RECURSIVE ScanIncludedNoBreak(_, _, _)
\* (the loop of line 270 without the break of line 278)
ScanIncludedNoBreak(rest, entry, acc) ==
    IF rest = <<>> THEN acc
    ELSE IF IsActiveAutotask(Head(rest))
           THEN ScanIncludedNoBreak(Tail(rest), entry, Append(acc, entry))
           ELSE ScanIncludedNoBreak(Tail(rest), entry, acc)

RECURSIVE ScanIncluded(_, _, _)
\* lines 270-278: the loop over the items rest of the included list; at the
\* first active Autotask item the entry is appended to acc and the loop breaks.
ScanIncluded(rest, entry, acc) ==
    IF rest = <<>> THEN acc
    ELSE IF IsActiveAutotask(Head(rest))
           THEN Append(acc, entry)
           ELSE ScanIncluded(Tail(rest), entry, acc)

\* lines 245-256: one page of the organization list. A failed fetch or an
\* empty page ends the enumeration; any other page is appended.
OrgEnumPage ==
    /\ org_pc = "enum"
    /\ \E r \in SafeRequestReturns :
         LET orgs == IF page <= Len(org_pages) THEN org_pages[page] ELSE <<>>
         IN IF r = None \/ r # 200 \/ orgs = <<>>
              THEN /\ org_pc' = "check"
                   /\ UNCHANGED <<page, all_orgs>>
              ELSE /\ all_orgs' = all_orgs \o orgs
                   /\ page' = page + 1
                   /\ UNCHANGED org_pc
    /\ UNCHANGED <<org_pages, org_i, org_checked, autotask_orgs>>
    /\ UNCHANGED orgFrame

\* lines 260-278: the detail of the next organization of all_orgs. A failed
\* fetch goes on to the next organization; else the included list is scanned.
OrgCheck ==
    /\ org_pc = "check"
    /\ org_i <= Len(all_orgs)
    /\ \E r \in OrgDetailResponses :
         /\ org_checked' = Append(org_checked, r)
         /\ IF r.status = None \/ r.status # 200
              THEN UNCHANGED autotask_orgs
              ELSE autotask_orgs' =
                     ScanIncluded(r.included,
                                  [org_id |-> all_orgs[org_i].id,
                                   org_name |-> all_orgs[org_i].name,
                                   included |-> r.included],
                                  autotask_orgs)
    /\ org_i' = org_i + 1
    /\ UNCHANGED <<org_pc, org_pages, page, all_orgs>>
    /\ UNCHANGED orgFrame

\* line 280: the loop of line 260 is over, autotask_orgs is returned.
OrgReturn ==
    /\ org_pc = "check"
    /\ org_i > Len(all_orgs)
    /\ org_pc' = "done"
    /\ UNCHANGED <<org_pages, page, all_orgs, org_i, org_checked, autotask_orgs>>
    /\ UNCHANGED orgFrame

(***************************************************************************)
(* Strings: a string is the sequence of its characters                      *)
(***************************************************************************)

\* A field that holds None instead of a string (item.get("emailAddress")).
NoneStr == <<"None">>

\* str.lower() on one character.
LowerChar(ch) ==
    CASE ch = "J" -> "j"
      [] ch = "E" -> "e"
      [] ch = "F" -> "f"
      [] ch = "N" -> "n"
      [] ch = "A" -> "a"
      [] OTHER -> ch

\* str.lower()
Lower(str) == [k \in 1..Len(str) |-> LowerChar(str[k])]

RECURSIVE LStrip(_)
LStrip(str) ==
    IF str # <<>> /\ Head(str) = " " THEN LStrip(Tail(str)) ELSE str

RECURSIVE RStrip(_)
RStrip(str) ==
    IF str # <<>> /\ str[Len(str)] = " "
      THEN RStrip(SubSeq(str, 1, Len(str) - 1))
      ELSE str

\* str.strip()
Strip(str) == RStrip(LStrip(str))

\* (value or ""): None and the empty string give the empty string.
OrEmpty(v) == IF v = NoneStr THEN <<>> ELSE v

\* if val: a string is true unless it is None or empty.
Truthy(val) == val # NoneStr /\ val # <<>>

\* sub in str
IsIn(sub, str) ==
    \E k \in 0..(Len(str) - Len(sub)) : SubSeq(str, k + 1, k + Len(sub)) = sub

(***************************************************************************)
(* get_existing_autotask_contacts, lines 163-182                            *)
(***************************************************************************)

\* (variant: no lower())
NormalizeExistingNoLower(raw) == Strip(OrEmpty(raw))

\* line 175: (item.get("emailAddress") or "").strip().lower()
NormalizeExisting(raw) == Lower(Strip(OrEmpty(raw)))

\* lines 174-177: the emails of a page's items that are not empty, lower-cased
PageEmails(items) ==
    {NormalizeExisting(items[k]) : k \in 1..Len(items)} \ {<<>>}

\* The "items" list of one page of a company's contacts, as the emailAddress
\* of each item: no item; or an item without email, one with an untrimmed
\* upper-case email and one with a blank email.
ItemPages == {<<>>, <<NoneStr, <<" ", "J">>, <<" ">>>>}

\* The most pages the Ticketing Service answers one read with.
MaxAtPages == 2

(***************************************************************************)
(* create_contact_in_autotask, lines 185-233                                *)
(***************************************************************************)

\* line 186: (contact_data.get("email") or "").strip().lower()
NormalizePayload(raw) == Lower(Strip(OrEmpty(raw)))

\* (variant: the cache is not consulted)
AlreadyExistsNever(email, cache) == FALSE

\* line 189: the email is not empty and the cache holds it
AlreadyExists(email, cache) == email # <<>> /\ email \in cache

\* (variant: every status below 400 is taken for a creation)
PostRejectedFrom400(st) == st >= 400

\* line 224: the POST's response is not the created one
PostRejected(st) == st # 200

\* (variant: the email is not added)
CacheAddNothing(cache, email) == cache

\* line 232: existing_emails_cache.add(email)
CacheAdd(cache, email) == cache \cup {email}

\* (variant: a missing last name is let through)
MissingLastNameNever(last) == FALSE

\* line 198: not last
MissingLastName(last) == last = <<>>

\* The json argument of a call that sends no POST.
NoPayload == [FirstName |-> <<>>, LastName |-> <<>>, EmailAddress |-> <<>>,
              Phone |-> <<>>]

\* lines 208-214: the Autotask contact JSON
AutotaskPayload(first, last, email, phone) ==
    [FirstName |-> first, LastName |-> last, EmailAddress |-> email,
     Phone |-> phone]

\* The call create_contact_in_autotask(.., company_id, contact_data, cache)
\* when the POST, if one is sent, is answered st by safe_request: whether a
\* POST is sent and with which JSON, the value returned and the cache
\* afterwards.
create_contact_in_autotask(contact_data, cache, st) ==
    LET email == NormalizePayload(contact_data.email)
        first == OrEmpty(contact_data.firstName)
        last == OrEmpty(contact_data.lastName)
        phone == OrEmpty(contact_data.phone)
        payload == AutotaskPayload(first, last, email, phone)
    IN IF AlreadyExists(email, cache)
         THEN [posted |-> FALSE, payload |-> NoPayload, ret |-> FALSE, cache |-> cache]
       ELSE IF MissingLastName(last)
         THEN [posted |-> FALSE, payload |-> NoPayload, ret |-> FALSE, cache |-> cache]
       ELSE IF email = <<>>
         THEN [posted |-> FALSE, payload |-> NoPayload, ret |-> FALSE, cache |-> cache]
       ELSE IF st = None
         THEN [posted |-> TRUE, payload |-> payload, ret |-> FALSE, cache |-> cache]
       ELSE IF PostRejected(st)
         THEN [posted |-> TRUE, payload |-> payload, ret |-> FALSE, cache |-> cache]
       ELSE [posted |-> TRUE, payload |-> payload, ret |-> TRUE,
             cache |-> CacheAdd(cache, email)]

(***************************************************************************)
(* The creation loop of main, lines 344-358                                 *)
(***************************************************************************)

\* The prompt of line 341 has not been answered.
NoInput == <<"no input">>

\* What the user types at the prompt of line 341 before Enter: nothing, a
\* blank, a letter.
Answers == {<<>>, <<" ">>, <<"n">>}

\* (variant: no answer cancels)
CancelledNever(answer) == FALSE

\* line 341: input(..).strip() != ""
Cancelled(answer) == Strip(answer) # <<>>

\* lines 341-346: the prompt is answered; sys.exit ends the run, or the loop
\* starts with an empty dict, no contact created and none skipped.
Confirm ==
    /\ create_pc = "prompt"
    /\ \E answer \in Answers :
         /\ confirm_input' = answer
         /\ create_pc' = IF Cancelled(answer) THEN "cancelled" ELSE "next"
    /\ UNCHANGED <<run, contacts_to_create, cand_i, existing_contacts_cache,
                   created_count, skipped, at_page_no, existing_emails,
                   read_log, read_items, read_failed, calls>>
    /\ UNCHANGED createFrame

\* The candidate the loop of line 349 stands at.
Cand == contacts_to_create[cand_i]

\* (variant: the dict is never found to hold the company)
CompanyNotCachedEver(company_id, cache) == TRUE

\* line 350: company_id not in existing_contacts_cache
CompanyNotCached(company_id, cache) == company_id \notin DOMAIN cache

\* line 350, company not in the cache: get_existing_autotask_contacts is
\* called (line 351) and starts with the first page and an empty set.
ReadStart ==
    /\ create_pc = "next"
    /\ cand_i <= Len(contacts_to_create)
    /\ CompanyNotCached(Cand.company_id, existing_contacts_cache)
    /\ create_pc' = "read"
    /\ at_page_no' = 1
    /\ existing_emails' = {}
    /\ read_log' = Append(read_log, Cand.company_id)
    /\ UNCHANGED <<run, contacts_to_create, cand_i, existing_contacts_cache,
                   created_count, skipped, read_items, read_failed, calls>>
    /\ UNCHANGED confirm_input
    /\ UNCHANGED createFrame

\* line 350, company in the cache: straight to line 353.
ReadSkip ==
    /\ create_pc = "next"
    /\ cand_i <= Len(contacts_to_create)
    /\ Cand.company_id \in DOMAIN existing_contacts_cache
    /\ create_pc' = "create"
    /\ UNCHANGED <<run, contacts_to_create, cand_i, existing_contacts_cache,
                   created_count, skipped, at_page_no, existing_emails,
                   read_log, read_items, read_failed, calls>>
    /\ UNCHANGED confirm_input
    /\ UNCHANGED createFrame

\* The set existing_emails is returned (line 182) and stored in the dict
\* (line 351); the locals of the call are gone (back to their first values).
StoreCache(emails) ==
    existing_contacts_cache' =
        [c \in DOMAIN existing_contacts_cache \cup {Cand.company_id} |->
            IF c = Cand.company_id THEN emails ELSE existing_contacts_cache[c]]

\* lines 167-182: one page of the read. A failed fetch ends the read with the
\* emails collected so far; a page of status 200 adds its emails and the read
\* goes on while the page names a next page.
ReadPage ==
    /\ create_pc = "read"
    /\ \E r \in SafeRequestReturns :
         IF r = None \/ r # 200
           THEN /\ read_failed' = read_failed \cup {Cand.company_id}
                /\ StoreCache(existing_emails)
                /\ create_pc' = "create"
                /\ at_page_no' = 1
                /\ existing_emails' = {}
                /\ UNCHANGED read_items
           ELSE \E items \in ItemPages,
                   next_link \in {None} \cup {n \in {at_page_no + 1} : n <= MaxAtPages} :
                  LET emails == existing_emails \cup PageEmails(items)
                  IN /\ read_items' =
                          [read_items EXCEPT ![Cand.company_id] =
                              @ \cup {items[k] : k \in 1..Len(items)}]
                     /\ UNCHANGED read_failed
                     /\ IF next_link # None
                          THEN /\ at_page_no' = next_link
                               /\ existing_emails' = emails
                               /\ UNCHANGED <<create_pc, existing_contacts_cache>>
                          ELSE /\ StoreCache(emails)
                               /\ create_pc' = "create"
                               /\ at_page_no' = 1
                               /\ existing_emails' = {}
    /\ UNCHANGED <<run, contacts_to_create, cand_i, created_count, skipped,
                   read_log, calls>>
    /\ UNCHANGED confirm_input
    /\ UNCHANGED createFrame

\* lines 353-358: create_contact_in_autotask on the candidate with its
\* company's set, the count or the skipped list updated, next candidate.
Create ==
    /\ create_pc = "create"
    /\ \E st \in SafeRequestReturns :
         LET company_id == Cand.company_id
             contact_payload == Cand.payload
             out == create_contact_in_autotask(contact_payload,
                        existing_contacts_cache[company_id], st)
         IN \* no POST is sent: safe_request is not called, st stands for nothing
            /\ out.posted \/ st = None
            /\ existing_contacts_cache' =
                   [existing_contacts_cache EXCEPT ![company_id] = out.cache]
            /\ IF out.ret
                 THEN created_count' = created_count + 1 /\ UNCHANGED skipped
                 ELSE /\ skipped' = Append(skipped, <<contact_payload.firstName,
                                                     contact_payload.lastName>>)
                      /\ UNCHANGED created_count
            /\ calls' = Append(calls,
                   [run |-> run, cand |-> cand_i, company_id |-> company_id,
                    email |-> contact_payload.email,
                    lastName |-> contact_payload.lastName,
                    posted |-> out.posted,
                    payload |-> out.payload,
                    status |-> IF out.posted THEN st ELSE None,
                    ret |-> out.ret,
                    cache_before |-> existing_contacts_cache[company_id],
                    cache_after |-> out.cache])
    /\ cand_i' = cand_i + 1
    /\ create_pc' = "next"
    /\ UNCHANGED <<run, contacts_to_create, at_page_no, existing_emails,
                   read_log, read_items, read_failed>>
    /\ UNCHANGED confirm_input
    /\ UNCHANGED createFrame

\* line 360: the loop of line 349 is over.
LoopEnd ==
    /\ create_pc = "next"
    /\ cand_i > Len(contacts_to_create)
    /\ create_pc' = "end"
    /\ UNCHANGED <<run, contacts_to_create, cand_i, existing_contacts_cache,
                   created_count, skipped, at_page_no, existing_emails,
                   read_log, read_items, read_failed, calls>>
    /\ UNCHANGED confirm_input
    /\ UNCHANGED createFrame

\* The loop of lines 345-358 once more over the same contacts_to_create, with
\* the dict as the first run left it instead of the empty dict of line 344.
Rerun ==
    /\ create_pc = "end"
    /\ run = 1
    /\ run' = 2
    /\ cand_i' = 1
    /\ created_count' = 0
    /\ skipped' = <<>>
    /\ create_pc' = "next"
    /\ UNCHANGED <<contacts_to_create, existing_contacts_cache, at_page_no,
                   existing_emails, read_log, read_items, read_failed, calls>>
    /\ UNCHANGED confirm_input
    /\ UNCHANGED createFrame

(***************************************************************************)
(* extract_emails_and_phones, lines 115-151                                 *)
(***************************************************************************)

\* The words the labels and values are compared with.
WordEmail == <<"e", "m", "a", "i", "l">>
WordPhone == <<"p", "h", "o", "n", "e">>
WordMobile == <<"m", "o", "b", "i", "l", "e">>
WordFax == <<"f", "a", "x">>
WordNA == <<"n", "/", "a">>

\* The values of a list that are true, trimmed (lines 120-128, 130-133).
TrimmedValues(values) ==
    {Strip(values[k]) : k \in {j \in 1..Len(values) : Truthy(values[j])}}

\* lines 135-138: the flat phone fields that are true and not "n/a"
TrimmedPhones(values) ==
    {Strip(values[k]) :
        k \in {j \in 1..Len(values) :
                  Truthy(values[j]) /\ Lower(Strip(values[j])) # WordNA}}

\* lines 140-147: the included contact_methods with a value whose label holds
\* "email"
MethodEmails(included) ==
    {Strip(included[k].value) :
        k \in {j \in 1..Len(included) :
                  /\ included[j].type = "contact_methods"
                  /\ Truthy(included[j].value)
                  /\ IsIn(WordEmail, Lower(included[j].label))}}

\* lines 148-149: those whose label holds no "email" but "phone", "mobile" or
\* "fax"
MethodPhones(included) ==
    {Strip(included[k].value) :
        k \in {j \in 1..Len(included) :
                  /\ included[j].type = "contact_methods"
                  /\ Truthy(included[j].value)
                  /\ ~IsIn(WordEmail, Lower(included[j].label))
                  /\ \E x \in {WordPhone, WordMobile, WordFax} :
                        IsIn(x, Lower(included[j].label))}}

\* extract_emails_and_phones(contact_data): the two sets, before list() puts
\* each in the order the set iterates in.
extract_emails_and_phones(contact_data) ==
    [emails |-> TrimmedValues(contact_data.contact_emails)
                  \cup TrimmedValues(contact_data.flat_emails)
                  \cup MethodEmails(contact_data.included),
     phones |-> TrimmedValues(contact_data.contact_phones)
                  \cup TrimmedPhones(contact_data.flat_phones)
                  \cup MethodPhones(contact_data.included)]

\* An included item of a contact detail with a label and a value.
Method(type, label, value) == [type |-> type, label |-> label, value |-> value]

\* The contact details get_microsoft_only_contacts hands to main: an email
\* list entry of one blank; no email at all (None and empty values, a phone
\* "N/A", a fax method); two emails, one untrimmed, and no last name; no name,
\* a phone entry and an email in a contact method next to an item of
\* another type.
MainContactData ==
    { [first_name |-> <<"A">>, last_name |-> <<"D">>,
       contact_emails |-> << <<" ">> >>, flat_emails |-> <<NoneStr, NoneStr, NoneStr>>,
       contact_phones |-> <<>>,
       flat_phones |-> <<NoneStr, NoneStr, NoneStr, NoneStr, NoneStr>>,
       included |-> <<>>],
      [first_name |-> <<"A">>, last_name |-> <<"D">>,
       contact_emails |-> <<NoneStr, <<>>>>, flat_emails |-> <<NoneStr, <<>>, NoneStr>>,
       contact_phones |-> <<>>,
       flat_phones |-> << <<"N", "/", "A">>, NoneStr, NoneStr, NoneStr, NoneStr>>,
       included |-> <<Method("contact_methods", <<"F", "a", "x">>, <<"5">>)>>],
      [first_name |-> <<"A">>, last_name |-> <<>>,
       contact_emails |-> << <<" ", "a">> >>, flat_emails |-> << <<"b">>, NoneStr, NoneStr>>,
       contact_phones |-> <<>>,
       flat_phones |-> <<NoneStr, NoneStr, NoneStr, NoneStr, NoneStr>>,
       included |-> <<>>],
      [first_name |-> <<>>, last_name |-> NoneStr,
       contact_emails |-> <<>>, flat_emails |-> <<NoneStr, NoneStr, NoneStr>>,
       contact_phones |-> << <<"5">> >>,
       flat_phones |-> <<NoneStr, NoneStr, NoneStr, NoneStr, NoneStr>>,
       included |-> <<Method("contact_methods", <<"E", "m", "a", "i", "l">>, <<"c", " ">>),
                      Method("tags", <<"e", "m", "a", "i", "l">>, <<"d">>)>>] }

(***************************************************************************)
(* get_autotask_remote_id_from_included, lines 154-159                      *)
(***************************************************************************)

\* Python's None where a remote-id is expected.
NoneId == "None"

RECURSIVE get_autotask_remote_id_from_included(_)
\* The remote-id of the first item whose adapter-type-name is "Autotask".
get_autotask_remote_id_from_included(included) ==
    IF included = <<>> THEN NoneId
    ELSE IF Head(included).adapter_type_name = "Autotask"
           THEN Head(included).remote_id
           ELSE get_autotask_remote_id_from_included(Tail(included))

(***************************************************************************)
(* The candidate loop of main, lines 305-338                                *)
(***************************************************************************)

\* The most organizations in syncing_orgs.
MaxSyncing == 2

\* The most contacts get_microsoft_only_contacts hands over in one run.
MaxMainContacts == 2

\* The organization the loop of line 313 stands at.
SyncingOrg == syncing_orgs[main_i]

\* (variant: no organization is taken for excluded)
ExcludedNever(org_id, ids) == FALSE

\* line 315: org_id in exclude_ids
Excluded(org_id, ids) == org_id \in ids

\* line 320: not autotask_remote_id
NoRemoteId(rid) == rid = NoneId \/ rid = ""

\* lines 315-317: the organization is in the exclude list.
MainSkipExcluded ==
    /\ main_pc = "orgs"
    /\ main_i <= Len(syncing_orgs)
    /\ Excluded(SyncingOrg.org_id, exclude_ids)
    /\ main_i' = main_i + 1
    /\ UNCHANGED <<main_pc, syncing_orgs, exclude_ids, autotask_remote_id,
                   main_n, filtered, cand_src, contacts_to_create>>
    /\ UNCHANGED mainFrame

\* lines 319-322: no Autotask remote-id is found in the included list.
MainSkipNoId ==
    /\ main_pc = "orgs"
    /\ main_i <= Len(syncing_orgs)
    /\ ~Excluded(SyncingOrg.org_id, exclude_ids)
    /\ autotask_remote_id' = get_autotask_remote_id_from_included(SyncingOrg.included)
    /\ NoRemoteId(autotask_remote_id')
    /\ main_i' = main_i + 1
    /\ UNCHANGED <<main_pc, syncing_orgs, exclude_ids, main_n, filtered,
                   cand_src, contacts_to_create>>
    /\ UNCHANGED mainFrame

\* lines 319-327: a remote-id is found and get_microsoft_only_contacts is
\* called for the organization (its walk and its detail fetches).
MainFilter ==
    /\ main_pc = "orgs"
    /\ main_i <= Len(syncing_orgs)
    /\ ~Excluded(SyncingOrg.org_id, exclude_ids)
    /\ autotask_remote_id' = get_autotask_remote_id_from_included(SyncingOrg.included)
    /\ ~NoRemoteId(autotask_remote_id')
    /\ filtered' = filtered \cup {main_i}
    /\ main_pc' = "contacts"
    /\ UNCHANGED <<syncing_orgs, exclude_ids, main_i, main_n, cand_src,
                   contacts_to_create>>
    /\ UNCHANGED mainFrame

\* lines 329-338: the next contact of ms_only_contacts; when it has an email,
\* a candidate is appended with the element list(emails) puts first, any of
\* the set, and likewise a phone.
MainContact ==
    /\ main_pc = "contacts"
    /\ main_n < MaxMainContacts
    /\ main_n' = main_n + 1
    /\ \E contact_data \in MainContactData :
         LET ep == extract_emails_and_phones(contact_data)
         IN IF ep.emails # {}
              THEN \E email0 \in ep.emails,
                      phone0 \in IF ep.phones # {} THEN ep.phones ELSE {<<>>} :
                     /\ contacts_to_create' =
                          Append(contacts_to_create,
                                 [company_id |-> autotask_remote_id,
                                  payload |-> [firstName |-> contact_data.first_name,
                                               lastName |-> contact_data.last_name,
                                               email |-> email0,
                                               phone |-> phone0]])
                     /\ cand_src' = Append(cand_src,
                                           [org |-> main_i, contact |-> contact_data])
              ELSE UNCHANGED <<contacts_to_create, cand_src>>
    /\ UNCHANGED <<main_pc, syncing_orgs, exclude_ids, main_i,
                   autotask_remote_id, filtered>>
    /\ UNCHANGED mainFrame

\* line 329: ms_only_contacts is exhausted, next organization.
MainOrgDone ==
    /\ main_pc = "contacts"
    /\ main_i' = main_i + 1
    /\ main_pc' = "orgs"
    /\ UNCHANGED <<syncing_orgs, exclude_ids, autotask_remote_id, main_n,
                   filtered, cand_src, contacts_to_create>>
    /\ UNCHANGED mainFrame

\* line 340: the loop of line 313 is over.
MainLoopEnd ==
    /\ main_pc = "orgs"
    /\ main_i > Len(syncing_orgs)
    /\ main_pc' = "done"
    /\ UNCHANGED <<syncing_orgs, exclude_ids, main_i, autotask_remote_id,
                   main_n, filtered, cand_src, contacts_to_create>>
    /\ UNCHANGED mainFrame

(***************************************************************************)
(* The worker pool of get_microsoft_only_contacts on a clock: lines 8-9,    *)
(* 74-78 and 95-96                                                          *)
(***************************************************************************)

\* line 8
MAX_REQUESTS_PER_SEC == 9

\* The clock counts in ticks of half a DELAY.
TicksPerSecond == 2 * MAX_REQUESTS_PER_SEC

\* line 9: DELAY = 1 / MAX_REQUESTS_PER_SEC, in ticks
DELAY == TicksPerSecond \div MAX_REQUESTS_PER_SEC

\* The most futures submitted to the pool.
MaxTasks == 3

\* The last tick of the clock.
MaxTime == 4

\* The futures a worker of the pool is running.
Sleeping == {i \in DOMAIN task : task[i] = "sleeping"}

\* The futures no worker has taken yet.
Waiting == {i \in DOMAIN task : task[i] = "queued"}

\* line 75: a free worker takes the oldest queued future and calls
\* time.sleep(DELAY).
RateSleep ==
    /\ Waiting # {}
    /\ Cardinality(Sleeping) < pool_size
    /\ LET i == CHOOSE q \in Waiting : \A r \in Waiting : q <= r
       IN /\ task' = [task EXCEPT ![i] = "sleeping"]
          /\ wake' = [wake EXCEPT ![i] = now + DELAY]
    /\ UNCHANGED <<pool_size, now, req_times>>
    /\ UNCHANGED rateFrame

\* lines 76-77: the sleep of a worker is over and it issues its detail
\* request; the answer comes at once and the worker is free again.
RateRequest ==
    /\ \E i \in Sleeping :
         /\ now >= wake[i]
         /\ task' = [task EXCEPT ![i] = "done"]
         /\ req_times' = Append(req_times, now)
    /\ UNCHANGED <<pool_size, now, wake>>
    /\ UNCHANGED rateFrame

\* Time passes.
RateTick ==
    /\ now < MaxTime
    /\ now' = now + 1
    /\ UNCHANGED <<pool_size, task, wake, req_times>>
    /\ UNCHANGED rateFrame

(***************************************************************************)
(* SpecReq: one call of safe_request with every max_retries up to the       *)
(* default and every outcome of every attempt.                              *)
(***************************************************************************)

WalkUnused ==
    /\ walk_pc = "idle"
    /\ pages = <<>>
    /\ url = None
    /\ contact_ids = <<>>
    /\ requested = {}

FilterUnused ==
    /\ filter_pc = "idle"
    /\ licensed = TRUE
    /\ fut = <<>>
    /\ fut_resp = <<>>
    /\ handled = <<>>
    /\ ms_only_contacts = <<>>

OrgUnused ==
    /\ org_pc = "idle"
    /\ org_pages = <<>>
    /\ page = 1
    /\ all_orgs = <<>>
    /\ org_i = 1
    /\ org_checked = <<>>
    /\ autotask_orgs = <<>>

CreateUnused ==
    /\ create_pc = "idle"
    /\ confirm_input = NoInput
    /\ run = 1
    /\ contacts_to_create = <<>>
    /\ cand_i = 1
    /\ existing_contacts_cache = <<>>
    /\ created_count = 0
    /\ skipped = <<>>
    /\ at_page_no = 1
    /\ existing_emails = {}
    /\ read_log = <<>>
    /\ read_items = <<>>
    /\ read_failed = {}
    /\ calls = <<>>

MainUnused ==
    /\ main_pc = "idle"
    /\ syncing_orgs = <<>>
    /\ exclude_ids = {}
    /\ main_i = 1
    /\ autotask_remote_id = NoneId
    /\ main_n = 0
    /\ filtered = {}
    /\ cand_src = <<>>

RateUnused ==
    /\ pool_size = MAX_WORKERS
    /\ now = 0
    /\ task = <<>>
    /\ wake = <<>>
    /\ req_times = <<>>

InitReq ==
    /\ sr_pc = "loop"
    /\ sr_caller = "test"
    /\ max_retries \in 0..MAX_RETRIES
    /\ attempt = 0
    /\ resp = Unbound
    /\ sr_result = None
    /\ sr_log = <<>>
    /\ sr_sleeps = <<>>
    /\ WalkUnused
    /\ FilterUnused
    /\ OrgUnused
    /\ CreateUnused
    /\ MainUnused
    /\ RateUnused

NextReq ==
    \/ SrAttempt
    \/ SrBackoff
    \/ SrGiveUp

SpecReq == InitReq /\ [][NextReq]_vars

\* An attempt's outcome that is a response of status below 400.
Below400(o) == o \in StatusCodes /\ o < 400

\* C7: an attempt of safe_request whose response has a status below 400 is the
\* last attempt of the call: safe_request has returned that very response, and
\* the only sleeps of the call are those of the attempts before it.
C7_SuccessReturnsAtOnce ==
    \A i \in 1..Len(sr_log) :
        Below400(sr_log[i]) =>
            /\ i = Len(sr_log)
            /\ sr_pc = "returned"
            /\ sr_result = sr_log[i]
            /\ Len(sr_sleeps) = i - 1

\* C7 witness: a 204 answered on the third attempt, after two failed ones.
C7_Witness ==
    /\ sr_pc = "returned"
    /\ Len(sr_log) = 3
    /\ sr_log[3] = 204
    /\ sr_result = 204
    /\ Len(sr_sleeps) = 2

\* All attempts of the call so far ended in a status >= 400 or an exception.
AllAttemptsFailed == \A i \in 1..Len(sr_log) : sr_log[i] = Exc \/ sr_log[i] >= 400

\* C8: when every attempt fails, safe_request makes exactly max_retries
\* attempts, sleeps 2^i after attempt i (1, 2, 4, 8, 16 for max_retries = 5) and
\* returns None; it never raises and never returns a status >= 400.
C8_ExhaustionGivesNone ==
    /\ sr_pc # "raised"
    /\ sr_result = None \/ sr_result < 400
    /\ (sr_pc = "returned" /\ AllAttemptsFailed) =>
          /\ Len(sr_log) = max_retries
          /\ sr_result = None
          /\ sr_sleeps = [i \in 1..max_retries |-> Pow2(i - 1)]
          /\ max_retries = 5 => sr_sleeps = <<1, 2, 4, 8, 16>>

\* C8 witness: five failed attempts, among them an exception before any
\* response, a 500 and a 404, and None returned.
C8_Witness ==
    /\ sr_pc = "returned"
    /\ max_retries = 5
    /\ Len(sr_log) = 5
    /\ sr_log[1] = Exc
    /\ 500 \in {sr_log[i] : i \in 1..5}
    /\ 404 \in {sr_log[i] : i \in 1..5}
    /\ sr_result = None

(***************************************************************************)
(* SpecWalk: get_all_contact_ids against a server of 1..MaxPages pages.     *)
(* Page k links to page k+1 and the last page has no next link, or an empty *)
(* page links to itself (a next link that does not advance).                *)
(***************************************************************************)

\* The most pages the server's collection has.
MaxPages == 2

\* The servers: what page k of n may be.
PageOf(k, n) ==
    {[data |-> d, next |-> x] :
        d \in PageData,
        x \in {IF k < n THEN k + 1 ELSE None}}
    \cup {[data |-> <<>>, next |-> k]}

Servers ==
    UNION {{s \in [1..n -> UNION {PageOf(k, n) : k \in 1..n}] :
                \A k \in 1..n : s[k] \in PageOf(k, n)} : n \in 1..MaxPages}

\* Every next link leads forward: the pages form a chain that ends.
IsChain == \A k \in 1..Len(pages) : pages[k].next # k

RECURSIVE ConcatPages(_, _)
\* The ids of pages 1..n of the server s, in page order.
ConcatPages(s, n) == IF n = 0 THEN <<>> ELSE ConcatPages(s, n - 1) \o s[n].data

InitWalk ==
    /\ sr_pc = "idle"
    /\ sr_caller = "walk"
    /\ max_retries = MAX_RETRIES
    /\ attempt = 0
    /\ resp = Unbound
    /\ sr_result = None
    /\ sr_log = <<>>
    /\ sr_sleeps = <<>>
    /\ walk_pc = "loop"
    /\ pages \in Servers
    /\ url = 1
    /\ contact_ids = <<>>
    /\ requested = {}
    /\ FilterUnused
    /\ OrgUnused
    /\ CreateUnused
    /\ MainUnused
    /\ RateUnused

NextWalk ==
    \/ WalkCall
    \/ SrAttempt
    \/ SrBackoff
    \/ SrGiveUp
    \/ WalkResume
    \/ WalkReturn

SpecWalk == InitWalk /\ [][NextWalk]_vars

\* The one thread of the program goes on while it has a next step.
FairWalk == SpecWalk /\ WF_vars(NextWalk)

\* C9: over a chain of N pages, get_all_contact_ids returns the ids of all N
\* pages in page order when no fetch failed, and the ids of pages 1..j-1 when
\* the fetch of page j failed (None, or a status other than 200); it has asked
\* for pages 1..j and for no page after j.
C9_WalkConcatenatesPages ==
    (walk_pc = "done" /\ IsChain) =>
        IF sr_result = 200
          THEN /\ url = None
               /\ contact_ids = ConcatPages(pages, Len(pages))
               /\ requested = 1..Len(pages)
          ELSE /\ url \in 1..Len(pages)
               /\ contact_ids = ConcatPages(pages, url - 1)
               /\ requested = 1..url

\* C9 witness: page 2 of 2 failed with a status below 400 that is not 200, and
\* the walk returned the non-empty page 1 alone.
C9_Witness ==
    /\ walk_pc = "done"
    /\ IsChain
    /\ Len(pages) = 2
    /\ sr_result = 204
    /\ url = 2
    /\ contact_ids = <<"c2", "c1">>
    /\ pages[2].data # <<>>

\* C10 as claimed: whatever the server answers, the walk returns.
C10_WalkAlwaysReturns == <>(walk_pc = "done")

\* C10 amended: when no next link leads back to its own page, the walk
\* returns, whichever fetches fail.
C10_WalkReturnsOnChain == IsChain => <>(walk_pc = "done")

\* C10 witness: the walk returned after a fetch that failed on every attempt.
C10_Witness ==
    /\ walk_pc = "done"
    /\ IsChain
    /\ sr_result = None
    /\ Len(sr_log) = MAX_RETRIES
    /\ url = Len(pages)

(***************************************************************************)
(* SpecFilter: get_microsoft_only_contacts over every list of up to         *)
(* MaxContacts contact ids (no dedup: an id may repeat), for both values of *)
(* licensed and every answer to every detail fetch.                         *)
(***************************************************************************)

\* The most contact ids the walk gave.
MaxContacts == 2

\* The ids of the organization's contacts.
ContactIds == {"c1", "c2"}

IdLists == UNION {[1..n -> ContactIds] : n \in 0..MaxContacts}

ReqUnused ==
    /\ sr_pc = "idle"
    /\ sr_caller = "test"
    /\ max_retries = MAX_RETRIES
    /\ attempt = 0
    /\ resp = Unbound
    /\ sr_result = None
    /\ sr_log = <<>>
    /\ sr_sleeps = <<>>

InitFilter ==
    /\ ReqUnused
    /\ walk_pc = "done"
    /\ pages = <<>>
    /\ url = None
    /\ contact_ids \in IdLists
    /\ requested = {}
    /\ filter_pc = "start"
    /\ licensed \in BOOLEAN
    /\ fut = <<>>
    /\ fut_resp = <<>>
    /\ handled = <<>>
    /\ ms_only_contacts = <<>>
    /\ OrgUnused
    /\ CreateUnused
    /\ MainUnused
    /\ RateUnused

NextFilter ==
    \/ FilterSubmit
    \/ FetchSleep
    \/ FetchRequest
    \/ HandleResult
    \/ FilterReturn

SpecFilter == InitFilter /\ [][NextFilter]_vars

\* Some included item has the adapter-type-name with sync true.
SyncsWith(inc, name) ==
    \E k \in 1..Len(inc) : inc[k].adapter_type_name = name /\ inc[k].sync = TRUE

\* Some included item of type "tags" has resource-type-name "Microsoft Licenses".
HasLicenseTag(inc) ==
    \E k \in 1..Len(inc) :
        inc[k].type = "tags" /\ inc[k].resource_type_name = "Microsoft Licenses"

\* The inclusion rule of the claim, for a detail's included list.
InclusionRule(inc) ==
    /\ SyncsWith(inc, "Microsoft")
    /\ ~SyncsWith(inc, "Autotask")
    /\ (licensed /\ HasLicenseTag(inc)) \/ (~licensed /\ ~HasLicenseTag(inc))

\* The futures handled so far whose detail came with status 200 and satisfies
\* the inclusion rule, in the order they were handled.
Included200 ==
    SelectSeq(handled,
              LAMBDA i : fut_resp[i].status = 200 /\ InclusionRule(fut_resp[i].included))

\* C5: the result of get_microsoft_only_contacts holds a handled contact whose
\* detail fetch returned 200 if and only if it syncs with Microsoft, does not
\* sync with Autotask and its license tag matches licensed: the result is
\* exactly the (id, detail) of those contacts, one entry each.
C5_InclusionRule ==
    /\ Len(ms_only_contacts) = Len(Included200)
    /\ \A k \in 1..Len(ms_only_contacts) :
          /\ ms_only_contacts[k].contact_id = contact_ids[Included200[k]]
          /\ ms_only_contacts[k].included = fut_resp[Included200[k]].included

\* C5 witness: with licensed = false, a Microsoft-synced, non-Autotask contact
\* with the license tag was left out and one without the tag was kept.
C5_Witness ==
    /\ filter_pc = "done"
    /\ ~licensed
    /\ Len(contact_ids) = 2
    /\ fut_resp[1] = [status |-> 200, included |-> <<MsOn, LicTag>>]
    /\ fut_resp[2] = [status |-> 200, included |-> <<MsOn, AtOff>>]
    /\ Len(ms_only_contacts) = 1
    /\ ms_only_contacts[1].included = <<MsOn, AtOff>>

\* The futures whose detail fetch did not fail.
Fetched200 == {i \in DOMAIN fut_resp : fut_resp[i].status = 200}

\* The positions of handled futures, as a set.
HandledSet == {handled[k] : k \in 1..Len(handled)}

\* C11: a contact whose detail fetch failed (None, or a status other than 200)
\* is left out of the result and does not end the processing: every entry of
\* the result comes from a handled future that answered 200, the result has
\* as many entries as handled futures answered 200 with a detail satisfying
\* the inclusion rule, and when the function returns every submitted contact
\* was fetched and handled, the failed ones included.
C11_FailedFetchExcluded ==
    /\ \A k \in 1..Len(ms_only_contacts) :
          \E i \in HandledSet \cap Fetched200 :
              /\ ms_only_contacts[k].contact_id = contact_ids[i]
              /\ ms_only_contacts[k].included = fut_resp[i].included
    /\ Len(ms_only_contacts) =
          Cardinality({i \in HandledSet \cap Fetched200 :
                          InclusionRule(fut_resp[i].included)})
    /\ filter_pc = "done" =>
          /\ HandledSet = 1..Len(contact_ids)
          /\ \A i \in 1..Len(contact_ids) : fut[i] = "done"

\* C11 witness: the first contact handled had a failed fetch whose body read
\* like a Microsoft-only contact, the second was fetched and kept.
C11_Witness ==
    /\ filter_pc = "done"
    /\ ~licensed
    /\ handled = <<1, 2>>
    /\ fut_resp[1] = [status |-> 204, included |-> <<MsOn>>]
    /\ fut_resp[2] = [status |-> 200, included |-> <<MsOn>>]
    /\ Len(ms_only_contacts) = 1
    /\ ms_only_contacts[1].contact_id = contact_ids[2]

\* How many entries of the result are the pair (cid, inc).
CountInResult(cid, inc) ==
    Cardinality({k \in 1..Len(ms_only_contacts) :
                    /\ ms_only_contacts[k].contact_id = cid
                    /\ ms_only_contacts[k].included = inc})

\* How many submitted contacts have id cid and a 200 answer with detail inc
\* that satisfies the inclusion rule: the order of completion is not in it.
CountExpected(cid, inc) ==
    Cardinality({i \in Fetched200 :
                    /\ contact_ids[i] = cid
                    /\ fut_resp[i].included = inc
                    /\ InclusionRule(inc)})

\* C16: no future is handled twice, and when get_microsoft_only_contacts
\* returns, exactly one result per submitted contact id was handled and the
\* result holds every (contact id, detail) pair as many times as the answers
\* per contact give it, whatever the order the futures completed in.
C16_OrderInsensitive ==
    /\ \A j, k \in 1..Len(handled) : handled[j] = handled[k] => j = k
    /\ filter_pc = "done" =>
          /\ Len(handled) = Len(contact_ids)
          /\ HandledSet = 1..Len(contact_ids)
          /\ \A cid \in ContactIds, inc \in ContactIncluded :
                 CountInResult(cid, inc) = CountExpected(cid, inc)
          /\ \A k \in 1..Len(ms_only_contacts) :
                 ms_only_contacts[k].included \in ContactIncluded

\* C16 witness: the second contact submitted was handled first, and both
\* contacts are in the result, in the order of completion.
C16_Witness ==
    /\ filter_pc = "done"
    /\ handled = <<2, 1>>
    /\ contact_ids = <<"c1", "c2">>
    /\ Len(ms_only_contacts) = 2
    /\ ms_only_contacts[1].contact_id = "c2"
    /\ ms_only_contacts[2].contact_id = "c1"

(***************************************************************************)
(* SpecOrgs: get_autotask_syncing_orgs against a server of up to MaxOrgs    *)
(* organizations listed in pages of one or two, with every answer to every  *)
(* list and detail fetch.                                                   *)
(***************************************************************************)

\* The most organizations the server lists.
MaxOrgs == 2

\* The k-th organization of the server's list.
Org(k) == [id |-> k, name |-> <<"org", k>>]

\* The list of n organizations in pages of size sz.
OrgPaging(n, sz) ==
    [p \in 1..((n + sz - 1) \div sz) |->
        [k \in 1..(IF p * sz <= n THEN sz ELSE n - (p - 1) * sz) |->
            Org((p - 1) * sz + k)]]

OrgServers == {OrgPaging(n, sz) : n \in 0..MaxOrgs, sz \in 1..2}

InitOrgs ==
    /\ ReqUnused
    /\ WalkUnused
    /\ FilterUnused
    /\ org_pc = "enum"
    /\ org_pages \in OrgServers
    /\ page = 1
    /\ all_orgs = <<>>
    /\ org_i = 1
    /\ org_checked = <<>>
    /\ autotask_orgs = <<>>
    /\ CreateUnused
    /\ MainUnused
    /\ RateUnused

NextOrgs ==
    \/ OrgEnumPage
    \/ OrgCheck
    \/ OrgReturn

SpecOrgs == InitOrgs /\ [][NextOrgs]_vars

\* The included list has an Autotask item with sync true and orphaned false.
ActivelySyncing(inc) ==
    \E k \in 1..Len(inc) :
        /\ inc[k].adapter_type_name = "Autotask"
        /\ inc[k].sync = TRUE
        /\ inc[k].orphaned = FALSE

\* The positions of all_orgs checked so far whose detail came with status
\* 200 and an actively syncing included list, in enumeration order.
SyncingPositions ==
    SelectSeq([i \in 1..Len(org_checked) |-> i],
              LAMBDA i : org_checked[i].status = 200
                         /\ ActivelySyncing(org_checked[i].included))

\* C6: the result of get_autotask_syncing_orgs holds an enumerated
\* organization if and only if its detail fetch returned 200 with an Autotask
\* item that syncs and is not orphaned; each such organization is there once,
\* in enumeration order; a failed detail fetch omits the organization and the
\* scan goes on to the last enumerated organization.
C6_SyncingOrgs ==
    /\ Len(autotask_orgs) = Len(SyncingPositions)
    /\ \A k \in 1..Len(autotask_orgs) :
          LET i == SyncingPositions[k]
          IN /\ autotask_orgs[k].org_id = all_orgs[i].id
             /\ autotask_orgs[k].org_name = all_orgs[i].name
             /\ autotask_orgs[k].included = org_checked[i].included
    /\ org_pc = "done" => Len(org_checked) = Len(all_orgs)

\* C6 witness: the detail fetch of the first of two organizations failed, and
\* the second, with an orphaned and an active Autotask item, is the result.
C6_Witness ==
    /\ org_pc = "done"
    /\ Len(all_orgs) = 2
    /\ org_checked[1].status = None
    /\ org_checked[2] = [status |-> 200, included |-> <<AtOrphan, AtOn>>]
    /\ Len(autotask_orgs) = 1
    /\ autotask_orgs[1].org_id = 2

(***************************************************************************)
(* SpecCreate: the creation loop of main over every list of up to MaxCands  *)
(* candidates of two companies, with every answer to every page of the      *)
(* reads and to every POST, run once and then once more over the same list  *)
(* with the dict the first run left.                                        *)
(***************************************************************************)

\* The most candidates in contacts_to_create.
MaxCands == 2

\* The remote-ids of the destination companies.
Companies == {"500", "600"}

\* The payloads: the same email in two cases, a missing last name, an empty
\* email, an email of one blank.
Payloads ==
    {[firstName |-> <<"A">>, lastName |-> l, email |-> e, phone |-> <<>>] :
        e \in {<<"J">>, <<"j">>}, l \in {<<"D">>}}
    \cup {[firstName |-> <<"A">>, lastName |-> <<>>, email |-> <<"j">>, phone |-> <<>>],
          [firstName |-> <<"A">>, lastName |-> <<"D">>, email |-> <<>>, phone |-> <<>>],
          [firstName |-> <<"A">>, lastName |-> <<"D">>, email |-> <<" ">>, phone |-> <<>>]}

Candidates == {[company_id |-> c, payload |-> p] : c \in Companies, p \in Payloads}

CandidateLists == UNION {[1..n -> Candidates] : n \in 0..MaxCands}

InitCreate ==
    /\ ReqUnused
    /\ WalkUnused
    /\ FilterUnused
    /\ OrgUnused
    /\ create_pc = "next"
    /\ confirm_input = <<>>
    /\ run = 1
    /\ contacts_to_create \in CandidateLists
    /\ cand_i = 1
    /\ existing_contacts_cache = <<>>
    /\ created_count = 0
    /\ skipped = <<>>
    /\ at_page_no = 1
    /\ existing_emails = {}
    /\ read_log = <<>>
    /\ read_items = [c \in Companies |-> {}]
    /\ read_failed = {}
    /\ calls = <<>>
    /\ MainUnused
    /\ RateUnused

NextCreate ==
    \/ ReadStart
    \/ ReadSkip
    \/ ReadPage
    \/ Create
    \/ LoopEnd
    \/ Rerun

SpecCreate == InitCreate /\ [][NextCreate]_vars

\* The trimmed, lower-cased form of an email.
TrimLower(e) == Lower(Strip(OrEmpty(e)))

\* C1: within one run, once create_contact_in_autotask has returned true for
\* a candidate, no later candidate of the same company with the same trimmed,
\* lower-cased email is POSTed: its call returns false. So each run creates at
\* most one contact per company and lower-cased email.
C1_NoDuplicateInRun ==
    \A i, j \in 1..Len(calls) :
        (/\ i < j
         /\ calls[i].run = calls[j].run
         /\ calls[i].company_id = calls[j].company_id
         /\ TrimLower(calls[i].email) = TrimLower(calls[j].email)
         /\ calls[i].ret)
        => ~calls[j].posted /\ ~calls[j].ret

\* C1 witness: "J" was created for a company and a later "j" of the same
\* company was skipped in the same run.
C1_Witness ==
    /\ Len(calls) = 2
    /\ calls[1].run = 1 /\ calls[2].run = 1
    /\ calls[1].company_id = calls[2].company_id
    /\ calls[1].email = <<"J">> /\ calls[2].email = <<"j">>
    /\ calls[1].ret
    /\ ~calls[2].posted

\* C2: a payload whose trimmed, lower-cased email equals that of an existing
\* contact read for the company is not POSTed, and the call returns false.
C2_CaseInsensitiveLookup ==
    \A k \in 1..Len(calls) :
        (\E raw \in read_items[calls[k].company_id] :
             /\ raw # NoneStr
             /\ TrimLower(raw) = TrimLower(calls[k].email))
        => ~calls[k].posted /\ ~calls[k].ret

\* C2 witness: the payload email "j" met the existing emailAddress " J", and
\* the payload had a last name.
C2_Witness ==
    /\ Len(calls) = 1
    /\ calls[1].email = <<"j">>
    /\ calls[1].lastName # <<>>
    /\ <<" ", "J">> \in read_items[calls[1].company_id]
    /\ ~calls[1].posted

\* C3 as claimed: no POST goes to a company whose read of existing contacts
\* met a failed page.
C3_FailedReadSkipsCompany ==
    \A k \in 1..Len(calls) :
        calls[k].company_id \in read_failed => ~calls[k].posted

\* C4 as claimed: the second run creates nothing.
C4_SecondRunCreatesNothing ==
    \A k \in 1..Len(calls) : calls[k].run = 2 => ~calls[k].ret

\* The call of the first run for the candidate at position c.
FirstRunCall(c) ==
    calls[CHOOSE j \in 1..Len(calls) : calls[j].run = 1 /\ calls[j].cand = c]

\* C4 amended: the second run POSTs only candidates whose POST of the first
\* run failed; so it creates nothing when every POST of the first run was
\* answered 200.
C4_SecondRunRetriesFailedOnly ==
    \A k \in 1..Len(calls) :
        (calls[k].run = 2 /\ calls[k].posted) =>
            /\ FirstRunCall(calls[k].cand).posted
            /\ ~FirstRunCall(calls[k].cand).ret

\* C4 witness: the second run is over; in the first run one candidate was
\* created and one POST failed, and the second run skipped the first and
\* POSTed the second again.
C4_Witness ==
    /\ create_pc = "end"
    /\ run = 2
    /\ Len(calls) = 4
    /\ calls[1].ret
    /\ calls[2].posted /\ ~calls[2].ret
    /\ ~calls[3].posted
    /\ calls[4].posted /\ calls[4].ret

\* C12: a call of create_contact_in_autotask whose payload has an empty
\* lastName, or an email that is empty once trimmed, returns false, sends no
\* POST and leaves the company's set of existing emails as it was; and every
\* POST sent carries a non-empty LastName and a non-empty EmailAddress.
C12_NoPostWithoutNameOrEmail ==
    \A k \in 1..Len(calls) :
        /\ (OrEmpty(calls[k].lastName) = <<>> \/ TrimLower(calls[k].email) = <<>>)
             => /\ ~calls[k].posted
                /\ ~calls[k].ret
                /\ calls[k].cache_after = calls[k].cache_before
        /\ calls[k].posted
             => /\ calls[k].payload.LastName # <<>>
                /\ calls[k].payload.EmailAddress # <<>>

\* C12 witness: a call with an email and no last name, and a call with a last
\* name and an email of one blank, both answered false without a POST, the
\* company's set unchanged.
C12_Witness ==
    /\ Len(calls) = 2
    /\ calls[1].lastName = <<>> /\ calls[1].email = <<"j">>
    /\ calls[2].lastName = <<"D">> /\ calls[2].email = <<" ">>
    /\ \A k \in 1..2 :
          /\ ~calls[k].posted /\ ~calls[k].ret
          /\ calls[k].cache_after = calls[k].cache_before
          /\ existing_contacts_cache[calls[k].company_id] = calls[k].cache_before

\* The positions of read_log at which the read of company c was started.
ReadsOf(c) == {k \in 1..Len(read_log) : read_log[k] = c}

\* C14: get_existing_autotask_contacts is started at most once per company,
\* and no call of create_contact_in_autotask for a company is made before the
\* read of that company was started, whether the read failed, was cut short
\* or ran to its end.
C14_ReadOncePerCompany ==
    /\ \A c \in Companies : Cardinality(ReadsOf(c)) <= 1
    /\ \A k \in 1..Len(calls) : ReadsOf(calls[k].company_id) # {}
    /\ create_pc = "create" => ReadsOf(Cand.company_id) # {}

\* C14 witness: two candidates of one company whose read failed: one read,
\* two calls.
C14_Witness ==
    /\ run = 1
    /\ Len(calls) = 2
    /\ calls[1].company_id = calls[2].company_id
    /\ calls[1].company_id \in read_failed
    /\ read_log = <<calls[1].company_id>>

\* C17 as claimed: a POST answered with a status below 400 makes the call
\* return true and add the email to the cache, and only such a POST does.
C17_TrueIffBelow400 ==
    \A k \in 1..Len(calls) :
        calls[k].posted =>
            (calls[k].ret <=> (calls[k].status # None /\ calls[k].status < 400))

\* C17 amended: a call that sent the POST returns true and adds the trimmed,
\* lower-cased email to the company's set exactly when the POST was answered
\* with status 200; on None or any other status it returns false; and no call
\* that returns false changes the set.
C17_TrueIff200 ==
    \A k \in 1..Len(calls) :
        /\ calls[k].posted => (calls[k].ret <=> calls[k].status = 200)
        /\ calls[k].ret =>
              /\ calls[k].posted
              /\ calls[k].cache_after =
                    calls[k].cache_before \cup {TrimLower(calls[k].email)}
        /\ ~calls[k].ret => calls[k].cache_after = calls[k].cache_before

\* C17 witness: a POST answered 204 returned false and left the set as it
\* was, and the same candidate POSTed again and answered 200 returned true
\* and added the email.
C17_Witness ==
    /\ Len(calls) = 2
    /\ calls[1].posted /\ calls[1].status = 204 /\ ~calls[1].ret
    /\ calls[1].cache_after = calls[1].cache_before
    /\ calls[2].company_id = calls[1].company_id
    /\ calls[2].posted /\ calls[2].status = 200 /\ calls[2].ret
    /\ calls[2].email = <<"J">>
    /\ existing_contacts_cache[calls[2].company_id] =
          calls[2].cache_before \cup {<<"j">>}

(***************************************************************************)
(* SpecConfirm: main from the prompt of line 341 to the end of the creation *)
(* loop, over every candidate list, every answer to the prompt and every    *)
(* answer to every request.                                                 *)
(***************************************************************************)

InitConfirm ==
    /\ ReqUnused
    /\ WalkUnused
    /\ FilterUnused
    /\ OrgUnused
    /\ create_pc = "prompt"
    /\ confirm_input = NoInput
    /\ run = 1
    /\ contacts_to_create \in CandidateLists
    /\ cand_i = 1
    /\ existing_contacts_cache = <<>>
    /\ created_count = 0
    /\ skipped = <<>>
    /\ at_page_no = 1
    /\ existing_emails = {}
    /\ read_log = <<>>
    /\ read_items = [c \in Companies |-> {}]
    /\ read_failed = {}
    /\ calls = <<>>
    /\ MainUnused
    /\ RateUnused

NextConfirm ==
    \/ Confirm
    \/ ReadStart
    \/ ReadSkip
    \/ ReadPage
    \/ Create
    \/ LoopEnd

SpecConfirm == InitConfirm /\ [][NextConfirm]_vars

\* A request went, or is about to go, to the Ticketing Service: a read of
\* existing contacts was started or create_contact_in_autotask was called.
TicketingTouched ==
    read_log # <<>> \/ calls # <<>> \/ create_pc \in {"read", "create"}

\* The calls made so far are those of the first candidates of the list, one
\* each, in list order.
ProcessedInOrder ==
    /\ Len(calls) <= Len(contacts_to_create)
    /\ \A k \in 1..Len(calls) :
          /\ calls[k].cand = k
          /\ calls[k].company_id = contacts_to_create[k].company_id
          /\ calls[k].email = contacts_to_create[k].payload.email
          /\ calls[k].lastName = contacts_to_create[k].payload.lastName

SyncingIncluded ==
    {inc \in {<<AtOn>>, <<AtOrphan, AtOn>>, <<AtIdle, AtOn>>, <<AtOn, AtOn2>>,
              <<AtNoId>>, <<AtOrphan>>} :
        ScanIncluded(inc, inc, <<>>) # <<>>}

\* What get_autotask_syncing_orgs returns: organizations 1, 2, .. in the
\* order of the list, each with an included list it is kept for.
SyncingLists ==
    UNION {{[k \in 1..n |-> [org_id |-> Org(k).id, org_name |-> Org(k).name,
                              included |-> incs[k]]] :
               incs \in [1..n -> SyncingIncluded]} : n \in 0..MaxSyncing}

InitMain ==
    /\ ReqUnused
    /\ WalkUnused
    /\ FilterUnused
    /\ OrgUnused
    /\ CreateUnused
    /\ main_pc = "orgs"
    /\ syncing_orgs \in SyncingLists
    /\ exclude_ids \in SUBSET {Org(1).id, Org(2).id}
    /\ main_i = 1
    /\ autotask_remote_id = NoneId
    /\ main_n = 0
    /\ filtered = {}
    /\ cand_src = <<>>
    /\ RateUnused

NextMain ==
    \/ MainSkipExcluded
    \/ MainSkipNoId
    \/ MainFilter
    \/ MainContact
    \/ MainOrgDone
    \/ MainLoopEnd

SpecMain == InitMain /\ [][NextMain]_vars

\* C13 as claimed: every candidate of contacts_to_create has a non-empty
\* email.
C13_CandidatesHaveEmail ==
    \A k \in 1..Len(contacts_to_create) :
        contacts_to_create[k].payload.email # <<>>

\* The remote-ids of the Autotask items of the included list that sync and
\* are not orphaned.
ActiveRemoteIds(inc) ==
    {inc[j].remote_id : j \in {i \in 1..Len(inc) :
                                  /\ inc[i].adapter_type_name = "Autotask"
                                  /\ inc[i].sync = TRUE
                                  /\ inc[i].orphaned = FALSE}}

\* C19 as claimed: the company id of every candidate is the remote-id of an
\* Autotask relationship of its organization that syncs and is not orphaned.
C19_CompanyIsActiveRemoteId ==
    \A k \in 1..Len(contacts_to_create) :
        contacts_to_create[k].company_id
            \in ActiveRemoteIds(syncing_orgs[cand_src[k].org].included)

\* The first Autotask item of the included list, if any, has a remote-id that
\* is not empty.
HasRemoteId(inc) ==
    \E j \in 1..Len(inc) :
        /\ inc[j].adapter_type_name = "Autotask"
        /\ \A i \in 1..(j - 1) : inc[i].adapter_type_name # "Autotask"
        /\ inc[j].remote_id \notin {"", NoneId}

\* The candidates that came from the organization at position p.
CandidatesOf(p) == {k \in 1..Len(cand_src) : cand_src[k].org = p}

\* C20: for an organization whose id is in the exclude list, and for one
\* with no Autotask remote-id, get_microsoft_only_contacts is not called (no
\* walk of contact ids, no detail fetch) and no candidate comes from it; for
\* every other organization the loop has passed it was called, whatever the
\* exclude list holds.
C20_ExcludedOrgsUntouched ==
    \A p \in 1..Len(syncing_orgs) :
        LET excluded == syncing_orgs[p].org_id \in exclude_ids
            has_id == HasRemoteId(syncing_orgs[p].included)
        IN /\ (excluded \/ ~has_id) => (p \notin filtered /\ CandidatesOf(p) = {})
           /\ (~excluded /\ has_id /\ p < main_i) => p \in filtered
           /\ p > main_i => (p \notin filtered /\ CandidatesOf(p) = {})

\* C20 witness: of two organizations with the same included list the first
\* is excluded and gave nothing, the second was filtered and gave two
\* candidates.
C20_Witness ==
    /\ main_pc = "done"
    /\ Len(syncing_orgs) = 2
    /\ syncing_orgs[1].included = syncing_orgs[2].included
    /\ exclude_ids = {syncing_orgs[1].org_id}
    /\ filtered = {2}
    /\ Len(contacts_to_create) = 2
    /\ CandidatesOf(2) = {1, 2}

(***************************************************************************)
(* SpecRate: up to MaxTasks detail fetches submitted at time 0 to a pool of *)
(* any size up to max_workers, with every interleaving of the workers and   *)
(* the clock up to MaxTime.                                                 *)
(***************************************************************************)

InitRate ==
    /\ ReqUnused
    /\ WalkUnused
    /\ FilterUnused
    /\ OrgUnused
    /\ CreateUnused
    /\ MainUnused
    /\ pool_size \in 1..MAX_WORKERS
    /\ now = 0
    /\ \E n \in 0..MaxTasks :
         /\ task = [i \in 1..n |-> "queued"]
         /\ wake = [i \in 1..n |-> 0]
    /\ req_times = <<>>

NextRate ==
    \/ RateSleep
    \/ RateRequest
    \/ RateTick

SpecRate == InitRate /\ [][NextRate]_vars

\* C15 as claimed: across all workers, no two detail requests are issued less
\* than DELAY apart.
C15_OneRequestPerDelay ==
    \A j, k \in 1..Len(req_times) :
        j < k => req_times[k] - req_times[j] >= DELAY

====
